---- MODULE Spec2Model ----
(***************************************************************************)
(* SQL query validator: the lexer of src/src/lexer.py (tokenize over the   *)
(* ordered TOKEN_PATTERNS) and the recursive-descent Parser of             *)
(* src/src/parser.py, driven by validate_query.                            *)
(*                                                                         *)
(* A query is a sequence of characters, each character a string.  The two  *)
(* non-ASCII characters of the model are written by their code points.     *)
(* Offsets (position, current_token_index) are 0-based as in the source;   *)
(* TLA+ sequences are 1-based, so element i of the source is s[i + 1].     *)
(***************************************************************************)
EXTENDS Integers, Sequences, FiniteSets, TLC

VARIABLES
    input,                \* the string passed to validate_query / tokenize
    query,                \* tokenize's local `query` (stripped input)
    position,             \* tokenize's local `position`
    tokens,               \* tokenize's `tokens`, then Parser.tokens
    current_token_index,  \* Parser.current_token_index
    current_token,        \* Parser.current_token (a token or None)
    stack,                \* Parser call stack: program points still to run
    phase,                \* where validate_query is
    outcome,              \* what validate_query returned
    error_position,       \* position named in the ValueError message
    iterations,           \* iterations of tokenize's while loop so far
    advances              \* executions of Parser._advance so far

vars == <<input, query, position, tokens, current_token_index, current_token,
          stack, phase, outcome, error_position, iterations, advances>>

-----------------------------------------------------------------------------
(* Characters *)

LowerLetters ==
    <<"a", "b", "c", "d", "e", "f", "g", "h", "i", "j", "k", "l", "m",
      "n", "o", "p", "q", "r", "s", "t", "u", "v", "w", "x", "y", "z">>

UpperLetters ==
    <<"A", "B", "C", "D", "E", "F", "G", "H", "I", "J", "K", "L", "M",
      "N", "O", "P", "Q", "R", "S", "T", "U", "V", "W", "X", "Y", "Z">>

Range(s) == {s[i] : i \in DOMAIN s}

\* U+00DF LATIN SMALL LETTER SHARP S and U+1E9E LATIN CAPITAL LETTER SHARP S:
\* letters outside [a-zA-Z]; str.upper() maps the small one to "SS".
SmallSharpS == "U+00DF"
CapitalSharpS == "U+1E9E"

AsciiLower == Range(LowerLetters)
AsciiUpper == Range(UpperLetters)
IsLower(c) == c \in AsciiLower
IsUpper(c) == c \in AsciiUpper
\* [a-zA-Z]
IsAsciiLetter(c) == IsLower(c) \/ IsUpper(c)
\* \d
DigitChars == {"0", "1", "2", "3", "4", "5", "6", "7", "8", "9"}
IsDigit(c) == c \in DigitChars
\* \w, the class \b is defined by (Unicode: every alphanumeric and "_")
IsWordChar(c) ==
    IsAsciiLetter(c) \/ IsDigit(c) \/ c = "_" \/ c \in {SmallSharpS, CapitalSharpS}
\* \s, and what str.strip() removes
SpaceChars == {" ", "\t", "\n"}
IsSpace(c) == c \in SpaceChars

IndexOf(s, c) == CHOOSE i \in DOMAIN s : s[i] = c

\* The ASCII letters' case mappings.
AsciiToUpper == [c \in AsciiLower |-> UpperLetters[IndexOf(LowerLetters, c)]]
AsciiToLower == [c \in AsciiUpper |-> LowerLetters[IndexOf(UpperLetters, c)]]

\* str.upper() of one character: a sequence, since it may lengthen the text.
UpperChar(c) ==
    IF IsLower(c) THEN <<AsciiToUpper[c]>>
    ELSE IF c = SmallSharpS THEN <<"S", "S">>
    ELSE <<c>>

\* str.lower() of one character.
LowerChar(c) ==
    IF IsUpper(c) THEN AsciiToLower[c]
    ELSE IF c = CapitalSharpS THEN SmallSharpS
    ELSE c

RECURSIVE Upper(_)
\* str.upper()
Upper(s) == IF s = <<>> THEN <<>> ELSE UpperChar(Head(s)) \o Upper(Tail(s))

\* The comparison of patterns compiled without re.IGNORECASE.
SameCase(c, p) == c = p

\* re.IGNORECASE comparison of a text character with a pattern character.
SameIgnoringCase(c, p) == LowerChar(c) = LowerChar(p)

SetMax(S) == CHOOSE x \in S : \A y \in S : y <= x
SetMin(S) == CHOOSE x \in S : \A y \in S : x <= y

-----------------------------------------------------------------------------
(* Lexer: TOKEN_PATTERNS.  Each Match operator is re.match of one pattern  *)
(* on the slice s = query[position:] and gives the length of the match,    *)
(* or -1 when there is none.                                                *)

KEYWORDS ==
    << <<"S", "E", "L", "E", "C", "T">>,
       <<"F", "R", "O", "M">>,
       <<"W", "H", "E", "R", "E">>,
       <<"I", "N", "S", "E", "R", "T">>,
       <<"I", "N", "T", "O">>,
       <<"V", "A", "L", "U", "E", "S">>,
       <<"U", "P", "D", "A", "T", "E">>,
       <<"S", "E", "T">>,
       <<"D", "E", "L", "E", "T", "E">>,
       <<"A", "N", "D">>,
       <<"O", "R">>,
       <<"N", "O", "T">>,
       <<"A", "S">>,
       <<"J", "O", "I", "N">>,
       <<"O", "N">>,
       <<"G", "R", "O", "U", "P", " ", "B", "Y">>,
       <<"O", "R", "D", "E", "R", " ", "B", "Y">>,
       <<"L", "I", "M", "I", "T">>,
       <<"O", "F", "F", "S", "E", "T">> >>

FUNCTIONS ==
    << <<"C", "O", "U", "N", "T">>,
       <<"S", "U", "M">>,
       <<"A", "V", "G">>,
       <<"M", "I", "N">>,
       <<"M", "A", "X">> >>

OPERATORS ==
    << <<">", "=">>, <<"<", "=">>, <<"!", "=">>, <<"=", "=">>,
       <<"=">>, <<">">>, <<"<">>, <<"+">>, <<"-">>, <<"*">>, <<"/">> >>

\* The literal w is a prefix of s, letters compared ignoring case.
StartsWith(s, w) ==
    /\ Len(w) <= Len(s)
    /\ \A i \in 1..Len(w) : SameIgnoringCase(s[i], w[i])

\* \b after the first n characters of s (1 <= n): exactly one of s[n] and
\* s[n + 1] is a word character; the end of the text counts as a non-word.
BoundaryAfter(s, n) ==
    IsWordChar(s[n]) # (n < Len(s) /\ IsWordChar(s[n + 1]))

\* \b(w1|w2|...)\b : the first alternative, in the order written, that is a
\* prefix of s and is followed by a word boundary.  (The leading \b holds
\* at the start of the slice because every alternative starts with a letter.)
MatchWordList(s, words) ==
    LET ok == {i \in DOMAIN words :
                  StartsWith(s, words[i]) /\ BoundaryAfter(s, Len(words[i]))}
    IN  IF ok = {} THEN -1 ELSE Len(words[SetMin(ok)])

MatchKeyword(s) == MatchWordList(s, KEYWORDS)

MatchFunction(s) == MatchWordList(s, FUNCTIONS)

\* >=|<=|!=|==|=|>|<|\+|-|\*|/ : the first alternative that is a prefix.
MatchOperator(s) ==
    LET ok == {i \in DOMAIN OPERATORS : StartsWith(s, OPERATORS[i])}
    IN  IF ok = {} THEN -1 ELSE Len(OPERATORS[SetMin(ok)])

RECURSIVE Run(_, _, _)
\* The number of consecutive characters of s from index i on that are in
\* the class: what a greedy x+ or x* takes there.
Run(s, i, class) ==
    IF i <= Len(s) /\ s[i] \in class THEN 1 + Run(s, i + 1, class) ELSE 0

RECURSIVE RunNot(_, _, _)
\* The same for a negated class [^...].
RunNot(s, i, class) ==
    IF i <= Len(s) /\ s[i] \notin class THEN 1 + RunNot(s, i + 1, class) ELSE 0

\* '[^']*' : a quote, the run of characters that are no quote, and a quote.
MatchString(s) ==
    LET n == RunNot(s, 2, {"'"})
    IN  IF s # <<>> /\ s[1] = "'" /\ n + 2 <= Len(s) THEN n + 2 ELSE -1

\* \b\d+(\.\d+)?\b : \d+ takes the whole run of d digits (with fewer, a
\* digit follows and neither "\." nor \b matches); then the greedy group
\* takes "." and the whole run of f digits if a word boundary follows
\* them, and is left out otherwise, the boundary then falling after the
\* first run.
MatchNumber(s) ==
    LET d == Run(s, 1, DigitChars)
        f == IF d + 1 <= Len(s) /\ s[d + 1] = "." THEN Run(s, d + 2, DigitChars)
             ELSE 0
    IN  IF d = 0 THEN -1
        ELSE IF f > 0 /\ BoundaryAfter(s, d + 1 + f) THEN d + 1 + f
        ELSE IF BoundaryAfter(s, d) THEN d
        ELSE -1

\* [\(\)]
MatchParenthesis(s) == IF s # <<>> /\ s[1] \in {"(", ")"} THEN 1 ELSE -1
\* ,
MatchComma(s) == IF s # <<>> /\ s[1] = "," THEN 1 ELSE -1
\* ;
MatchSemicolon(s) == IF s # <<>> /\ s[1] = ";" THEN 1 ELSE -1
\* TOKEN_PATTERNS without the entry for the dot.
MatchDotMissing(s) == -1

\* \.
MatchDot(s) == IF s # <<>> /\ s[1] = "." THEN 1 ELSE -1
\* \*
MatchWildcard(s) == IF s # <<>> /\ s[1] = "*" THEN 1 ELSE -1

\* [a-zA-Z0-9_]
IdentifierChars == AsciiLower \cup AsciiUpper \cup DigitChars \cup {"_"}

\* [a-zA-Z_][a-zA-Z0-9_]*
MatchIdentifier(s) ==
    IF s # <<>> /\ (IsAsciiLetter(s[1]) \/ s[1] = "_")
    THEN 1 + Run(s, 2, IdentifierChars)
    ELSE -1

\* \s+
\* \s* in place of \s+ : matches the empty string too.
MatchWhitespaceOrNothing(s) == Run(s, 1, SpaceChars)

MatchWhitespace(s) ==
    IF s # <<>> /\ IsSpace(s[1]) THEN Run(s, 1, SpaceChars) ELSE -1

\* The token type of the i-th entry of TOKEN_PATTERNS (None for whitespace).
PatternType(i) ==
    CASE i = 1 -> "KEYWORD"
      [] i = 2 -> "FUNCTION"
      [] i = 3 -> "OPERATOR"
      [] i = 4 -> "STRING"
      [] i = 5 -> "NUMBER"
      [] i = 6 -> "PARENTHESIS"
      [] i = 7 -> "COMMA"
      [] i = 8 -> "SEMICOLON"
      [] i = 9 -> "DOT"
      [] i = 10 -> "WILDCARD"
      [] i = 11 -> "IDENTIFIER"
      [] i = 12 -> "None"

\* re.match of the i-th entry of TOKEN_PATTERNS on s.
PatternMatch(i, s) ==
    CASE i = 1 -> MatchKeyword(s)
      [] i = 2 -> MatchFunction(s)
      [] i = 3 -> MatchOperator(s)
      [] i = 4 -> MatchString(s)
      [] i = 5 -> MatchNumber(s)
      [] i = 6 -> MatchParenthesis(s)
      [] i = 7 -> MatchComma(s)
      [] i = 8 -> MatchSemicolon(s)
      [] i = 9 -> MatchDot(s)
      [] i = 10 -> MatchWildcard(s)
      [] i = 11 -> MatchIdentifier(s)
      [] i = 12 -> MatchWhitespace(s)

TOKEN_PATTERNS == 1..12

\* query[position:]
Slice(q, p) == SubSeq(q, p + 1, Len(q))

RECURSIVE TryFrom(_, _)
\* The for loop over TOKEN_PATTERNS from its i-th entry on, on the text s:
\* the first entry that matches (the loop breaks there), 0 if none does.
TryFrom(i, s) ==
    IF i \notin TOKEN_PATTERNS THEN 0
    ELSE IF PatternMatch(i, s) # -1 THEN i
    ELSE TryFrom(i + 1, s)

\* The first entry of TOKEN_PATTERNS that matches at the offset, 0 if none.
FirstPattern(q, p) == TryFrom(1, Slice(q, p))

\* str.strip(): leading and trailing whitespace removed.
Strip(s) ==
    LET keep == {i \in DOMAIN s : ~IsSpace(s[i])}
    IN  IF keep = {} THEN <<>> ELSE SubSeq(s, SetMin(keep), SetMax(keep))

\* A token: the pair (value, type) of the source, as a record.
Token(value, type) == [value |-> value, type |-> type]

\* Python's None in the place of a token.
None == [value |-> <<>>, type |-> "NoneType"]

\* One iteration of tokenize's while loop at offset p of q, when some pattern
\* matches: the first matching entry of TOKEN_PATTERNS, the matched text and
\* the tokens to append (none for whitespace).
FirstMatch(q, p) ==
    LET i == FirstPattern(q, p)
        n == PatternMatch(i, Slice(q, p))
        value == SubSeq(q, p + 1, p + n)
    IN  [pattern |-> i,
         length |-> n,
         append |-> IF PatternType(i) # "None"
                    THEN <<Token(Upper(value), PatternType(i))>>
                    ELSE <<>>]

RECURSIVE Scan(_, _, _)
\* tokenize's while loop from offset p with the tokens found so far, run to
\* its end: what tokenize raises or returns.
Scan(q, p, found) ==
    IF ~(p < Len(q))
    THEN [raised |-> FALSE, position |-> p, tokens |-> found]
    ELSE IF FirstPattern(q, p) = 0
    THEN [raised |-> TRUE, position |-> p, tokens |-> found]
    ELSE LET m == FirstMatch(q, p)
         IN  Scan(q, p + m.length, found \o m.append)

\* tokenize(query) as a function of its argument.
tokenize(q) == Scan(Strip(q), 0, <<>>)

-----------------------------------------------------------------------------
(* Parser: the literals the grammar rules compare token text with *)

strSELECT == <<"S", "E", "L", "E", "C", "T">>
strINSERT == <<"I", "N", "S", "E", "R", "T">>
strUPDATE == <<"U", "P", "D", "A", "T", "E">>
strDELETE == <<"D", "E", "L", "E", "T", "E">>
strFROM == <<"F", "R", "O", "M">>
strWHERE == <<"W", "H", "E", "R", "E">>
strGROUP == <<"G", "R", "O", "U", "P">>
strORDER == <<"O", "R", "D", "E", "R">>
strBY == <<"B", "Y">>
strLIMIT == <<"L", "I", "M", "I", "T">>
strINTO == <<"I", "N", "T", "O">>
strVALUES == <<"V", "A", "L", "U", "E", "S">>
strSET == <<"S", "E", "T">>
strAS == <<"A", "S">>
strAND == <<"A", "N", "D">>
strOR == <<"O", "R">>
strEQ == <<"=">>
strOPEN == <<"(">>
strCLOSE == <<")">>

\* `value = None` of _expect: no text is required.
NoValue == <<>>

(***************************************************************************)
(* A program point of the Parser is named by the line of parser.py that    *)
(* runs next ("L80" is line 80).  `stack` holds the program points still   *)
(* to run, the current one first: a call pushes the callee's first line in *)
(* front of the caller's next line, a return pops.  A step of a grammar    *)
(* rule yields what to do: raise, or (after at most one _advance) replace  *)
(* the current program point by `push`.                                    *)
(***************************************************************************)
Raise(exception) == [raise |-> exception, advance |-> FALSE, push |-> <<>>]
\* self._advance(), then continue at `push`
Consume(push) == [raise |-> "None", advance |-> TRUE, push |-> push]
\* continue at `push` without touching the cursor
Goto(push) == [raise |-> "None", advance |-> FALSE, push |-> push]
Return == <<>>

\* A step that evaluates self.current_token[0] or [1], or unpacks
\* self.current_token: TypeError when current_token is None, else `step`.
Subscript(step) == IF current_token = None THEN Raise("TypeError") ELSE step

\* `self.current_token and self.current_token[1] == type`
TypeIs(type) == current_token # None /\ current_token.type = type
\* `self.current_token and self.current_token[0].upper() == text`
TextIs(text) == current_token # None /\ Upper(current_token.value) = text

\* Parser._expect, then continue at `push`
expect(expected_type, value, push) ==
    IF current_token = None THEN Raise("SyntaxError")
    ELSE Subscript(
        IF current_token.type # expected_type THEN Raise("SyntaxError")
        ELSE IF value # NoValue /\ Upper(current_token.value) # Upper(value)
             THEN Raise("SyntaxError")
        ELSE Consume(push))

\* First lines of the rules that start with a call.
EnterTableList == <<"L235", "L226">>
EnterValueList == <<"L305", "L278">>
EnterComparison == <<"L305", "L298">>
EnterCondition == EnterComparison \o <<"L289">>

\* parse_query without its check for trailing tokens (lines 71-72 left out).
QueryStepNoTrailingCheck(line) ==
    CASE line = "L50" ->
            IF current_token = None THEN Goto(Return)
            ELSE LET token_value == Upper(current_token.value)
                 IN  Subscript(
                     IF token_value = strSELECT THEN Goto(<<"L80", "L67">>)
                     ELSE IF token_value = strINSERT THEN Goto(<<"L115", "L67">>)
                     ELSE IF token_value = strUPDATE THEN Goto(<<"L133", "L67">>)
                     ELSE IF token_value = strDELETE THEN Goto(<<"L148", "L67">>)
                     ELSE Raise("SyntaxError"))
      [] line = "L67" ->
            IF TypeIs("SEMICOLON") THEN Consume(<<"L71">>) ELSE Goto(<<"L71">>)
      [] line = "L71" -> Goto(Return)

\* Parser.parse_query
QueryStep(line) ==
    CASE line = "L50" ->
            IF current_token = None THEN Goto(Return)
            ELSE LET token_value == Upper(current_token.value)
                 IN  Subscript(
                     IF token_value = strSELECT THEN Goto(<<"L80", "L67">>)
                     ELSE IF token_value = strINSERT THEN Goto(<<"L115", "L67">>)
                     ELSE IF token_value = strUPDATE THEN Goto(<<"L133", "L67">>)
                     ELSE IF token_value = strDELETE THEN Goto(<<"L148", "L67">>)
                     ELSE Raise("SyntaxError"))
      [] line = "L67" ->
            IF TypeIs("SEMICOLON") THEN Consume(<<"L71">>) ELSE Goto(<<"L71">>)
      [] line = "L71" ->
            IF current_token # None THEN Subscript(Raise("SyntaxError"))
            ELSE Goto(Return)

\* Parser.parse_select_statement
SelectStatementStep(line) ==
    CASE line = "L80" -> expect("KEYWORD", strSELECT, <<"L164", "L82">>)
      [] line = "L82" -> expect("KEYWORD", strFROM, EnterTableList \o <<"L86">>)
      [] line = "L86" ->
            IF current_token = None THEN Goto(Return)
            ELSE LET token_value == Upper(current_token.value)
                 IN  Subscript(
                     IF token_value = strWHERE
                        THEN Consume(EnterCondition \o <<"L86">>)
                     ELSE IF token_value = strGROUP THEN Consume(<<"L95">>)
                     ELSE IF token_value = strORDER THEN Consume(<<"L100">>)
                     ELSE IF token_value = strLIMIT
                        THEN Consume(<<"L305", "L86">>)
                     ELSE Goto(Return))
      [] line = "L95" -> expect("KEYWORD", strBY, <<"L250", "L86">>)
      [] line = "L100" -> expect("KEYWORD", strBY, <<"L250", "L86">>)

\* Parser.parse_insert_statement
InsertStatementStep(line) ==
    CASE line = "L115" -> expect("KEYWORD", strINSERT, <<"L116">>)
      [] line = "L116" -> expect("KEYWORD", strINTO, <<"L117">>)
      [] line = "L117" -> expect("IDENTIFIER", NoValue, <<"L119">>)
      [] line = "L119" -> expect("PARENTHESIS", strOPEN, <<"L250", "L121">>)
      [] line = "L121" -> expect("PARENTHESIS", strCLOSE, <<"L123">>)
      [] line = "L123" -> expect("KEYWORD", strVALUES, <<"L124">>)
      [] line = "L124" ->
            expect("PARENTHESIS", strOPEN, EnterValueList \o <<"L126">>)
      [] line = "L126" -> expect("PARENTHESIS", strCLOSE, Return)

\* Parser.parse_update_statement
UpdateStatementStep(line) ==
    CASE line = "L133" -> expect("KEYWORD", strUPDATE, <<"L235", "L135">>)
      [] line = "L135" -> expect("KEYWORD", strSET, <<"L261", "L139">>)
      [] line = "L139" ->
            IF TextIs(strWHERE) THEN Consume(EnterCondition) ELSE Goto(Return)

\* Parser.parse_delete_statement
DeleteStatementStep(line) ==
    CASE line = "L148" -> expect("KEYWORD", strDELETE, <<"L149">>)
      [] line = "L149" -> expect("KEYWORD", strFROM, <<"L235", "L153">>)
      [] line = "L153" ->
            IF TextIs(strWHERE) THEN Consume(EnterCondition) ELSE Goto(Return)

\* Parser.parse_select_list
SelectListStep(line) ==
    CASE line = "L164" ->
            IF TypeIs("WILDCARD") THEN Consume(Return)
            ELSE Goto(<<"L183", "L170">>)
      [] line = "L170" ->
            IF TypeIs("COMMA") THEN Consume(<<"L183", "L170">>)
            ELSE Goto(Return)

\* Parser.parse_select_item
SelectItemStep(line) ==
    CASE line = "L183" ->
            IF TypeIs("FUNCTION") THEN Consume(<<"L185">>)
            ELSE IF TypeIs("IDENTIFIER") THEN Goto(<<"L215", "L204">>)
            ELSE Raise("SyntaxError")
      [] line = "L185" -> expect("PARENTHESIS", strOPEN, <<"L188">>)
      [] line = "L188" ->
            IF TypeIs("WILDCARD") THEN Consume(<<"L195">>)
            ELSE IF TypeIs("IDENTIFIER") THEN Goto(<<"L215", "L195">>)
            ELSE Raise("SyntaxError")
      [] line = "L195" -> expect("PARENTHESIS", strCLOSE, <<"L204">>)
      [] line = "L204" ->
            IF TextIs(strAS) THEN Consume(<<"L206">>)
            ELSE IF TypeIs("IDENTIFIER") THEN Consume(Return)
            ELSE Goto(Return)
      [] line = "L206" -> expect("IDENTIFIER", NoValue, Return)

\* Parser.parse_qualified_identifier
QualifiedIdentifierStep(line) ==
    CASE line = "L215" -> expect("IDENTIFIER", NoValue, <<"L216">>)
      [] line = "L216" ->
            IF TypeIs("DOT") THEN Consume(<<"L218">>) ELSE Goto(Return)
      [] line = "L218" -> expect("IDENTIFIER", NoValue, Return)

\* Parser.parse_table_list (its first call is EnterTableList)
TableListStep(line) ==
    CASE line = "L226" ->
            IF TypeIs("COMMA") THEN Consume(<<"L235", "L226">>)
            ELSE Goto(Return)

\* Parser.parse_table_alias_item
TableAliasItemStep(line) ==
    CASE line = "L235" -> expect("IDENTIFIER", NoValue, <<"L238">>)
      [] line = "L238" ->
            IF TextIs(strAS) THEN Consume(<<"L240">>)
            ELSE IF TypeIs("IDENTIFIER") THEN Consume(Return)
            ELSE Goto(Return)
      [] line = "L240" -> expect("IDENTIFIER", NoValue, Return)

\* Parser.parse_column_list
ColumnListStep(line) ==
    CASE line = "L250" -> expect("IDENTIFIER", NoValue, <<"L252">>)
      [] line = "L252" ->
            IF TypeIs("COMMA") THEN Consume(<<"L254">>) ELSE Goto(Return)
      [] line = "L254" -> expect("IDENTIFIER", NoValue, <<"L252">>)

\* Parser.parse_assignment_list
AssignmentListStep(line) ==
    CASE line = "L261" -> expect("IDENTIFIER", NoValue, <<"L262">>)
      [] line = "L262" -> expect("OPERATOR", strEQ, <<"L305", "L265">>)
      [] line = "L265" ->
            IF TypeIs("COMMA") THEN Consume(<<"L267">>) ELSE Goto(Return)
      [] line = "L267" -> expect("IDENTIFIER", NoValue, <<"L268">>)
      [] line = "L268" -> expect("OPERATOR", strEQ, <<"L305", "L265">>)

\* Parser.parse_value_list (its first call is EnterValueList)
ValueListStep(line) ==
    CASE line = "L278" ->
            IF TypeIs("COMMA") THEN Consume(<<"L305", "L278">>)
            ELSE Goto(Return)

\* Parser.parse_condition (its first call is EnterCondition)
ConditionStep(line) ==
    CASE line = "L289" ->
            IF TextIs(strAND) \/ TextIs(strOR)
            THEN Consume(EnterComparison \o <<"L289">>)
            ELSE Goto(Return)

\* Parser.parse_comparison (its first call is EnterComparison)
ComparisonStep(line) ==
    CASE line = "L298" -> expect("OPERATOR", NoValue, <<"L305">>)

\* parse_value with line 311 as `current = self.current_token[0]`.
ValueStepUnguarded(line) ==
    CASE line = "L305" ->
            IF TypeIs("NUMBER") \/ TypeIs("STRING") THEN Consume(Return)
            ELSE IF TypeIs("IDENTIFIER") THEN Goto(<<"L215">>)
            ELSE Subscript(Raise("SyntaxError"))

\* Parser.parse_value
ValueStep(line) ==
    CASE line = "L305" ->
            IF TypeIs("NUMBER") \/ TypeIs("STRING") THEN Consume(Return)
            ELSE IF TypeIs("IDENTIFIER") THEN Goto(<<"L215">>)
            ELSE IF current_token # None THEN Subscript(Raise("SyntaxError"))
            ELSE Raise("SyntaxError")

-----------------------------------------------------------------------------
(* Inputs *)

\* The queries of the test suite of parser.py (test_queries), each as the
\* words between its spaces.
\* SELECT u.name, COUNT(*) AS total FROM users u WHERE u.age > 25 GROUP BY u.name ORDER BY total LIMIT 10;
Test1 ==
    << <<"S", "E", "L", "E", "C", "T">>,
       <<"u", ".", "n", "a", "m", "e", ",">>,
       <<"C", "O", "U", "N", "T", "(", "*", ")">>,
       <<"A", "S">>,
       <<"t", "o", "t", "a", "l">>,
       <<"F", "R", "O", "M">>,
       <<"u", "s", "e", "r", "s">>,
       <<"u">>,
       <<"W", "H", "E", "R", "E">>,
       <<"u", ".", "a", "g", "e">>,
       <<">">>,
       <<"2", "5">>,
       <<"G", "R", "O", "U", "P">>,
       <<"B", "Y">>,
       <<"u", ".", "n", "a", "m", "e">>,
       <<"O", "R", "D", "E", "R">>,
       <<"B", "Y">>,
       <<"t", "o", "t", "a", "l">>,
       <<"L", "I", "M", "I", "T">>,
       <<"1", "0", ";">> >>

\* SELECT user_id, name FROM users u, orders o WHERE u.id = o.user_id;
Test2 ==
    << <<"S", "E", "L", "E", "C", "T">>,
       <<"u", "s", "e", "r", "_", "i", "d", ",">>,
       <<"n", "a", "m", "e">>,
       <<"F", "R", "O", "M">>,
       <<"u", "s", "e", "r", "s">>,
       <<"u", ",">>,
       <<"o", "r", "d", "e", "r", "s">>,
       <<"o">>,
       <<"W", "H", "E", "R", "E">>,
       <<"u", ".", "i", "d">>,
       <<"=">>,
       <<"o", ".", "u", "s", "e", "r", "_", "i", "d", ";">> >>

\* SELECT name, age FROM users;
Test3 ==
    << <<"S", "E", "L", "E", "C", "T">>,
       <<"n", "a", "m", "e", ",">>,
       <<"a", "g", "e">>,
       <<"F", "R", "O", "M">>,
       <<"u", "s", "e", "r", "s", ";">> >>

\* SELECT total_price AS price, item_name FROM invoices;
Test4 ==
    << <<"S", "E", "L", "E", "C", "T">>,
       <<"t", "o", "t", "a", "l", "_", "p", "r", "i", "c", "e">>,
       <<"A", "S">>,
       <<"p", "r", "i", "c", "e", ",">>,
       <<"i", "t", "e", "m", "_", "n", "a", "m", "e">>,
       <<"F", "R", "O", "M">>,
       <<"i", "n", "v", "o", "i", "c", "e", "s", ";">> >>

\* INSERT INTO employees (id, name) VALUES (1, 'Alice');
Test5 ==
    << <<"I", "N", "S", "E", "R", "T">>,
       <<"I", "N", "T", "O">>,
       <<"e", "m", "p", "l", "o", "y", "e", "e", "s">>,
       <<"(", "i", "d", ",">>,
       <<"n", "a", "m", "e", ")">>,
       <<"V", "A", "L", "U", "E", "S">>,
       <<"(", "1", ",">>,
       <<"'", "A", "l", "i", "c", "e", "'", ")", ";">> >>

\* UPDATE products SET price = 1500, stock = 10 WHERE id = 5;
Test6 ==
    << <<"U", "P", "D", "A", "T", "E">>,
       <<"p", "r", "o", "d", "u", "c", "t", "s">>,
       <<"S", "E", "T">>,
       <<"p", "r", "i", "c", "e">>,
       <<"=">>,
       <<"1", "5", "0", "0", ",">>,
       <<"s", "t", "o", "c", "k">>,
       <<"=">>,
       <<"1", "0">>,
       <<"W", "H", "E", "R", "E">>,
       <<"i", "d">>,
       <<"=">>,
       <<"5", ";">> >>

\* DELETE FROM logs WHERE date < '2023-01-01';
Test7 ==
    << <<"D", "E", "L", "E", "T", "E">>,
       <<"F", "R", "O", "M">>,
       <<"l", "o", "g", "s">>,
       <<"W", "H", "E", "R", "E">>,
       <<"d", "a", "t", "e">>,
       <<"<">>,
       <<"'", "2", "0", "2", "3", "-", "0", "1", "-", "0", "1", "'", ";">> >>

\* SELECT name, FROM users;
Test8 ==
    << <<"S", "E", "L", "E", "C", "T">>,
       <<"n", "a", "m", "e", ",">>,
       <<"F", "R", "O", "M">>,
       <<"u", "s", "e", "r", "s", ";">> >>

\* INSERT INTO employees (name) VALUES ('Bob' 50000);
Test9 ==
    << <<"I", "N", "S", "E", "R", "T">>,
       <<"I", "N", "T", "O">>,
       <<"e", "m", "p", "l", "o", "y", "e", "e", "s">>,
       <<"(", "n", "a", "m", "e", ")">>,
       <<"V", "A", "L", "U", "E", "S">>,
       <<"(", "'", "B", "o", "b", "'">>,
       <<"5", "0", "0", "0", "0", ")", ";">> >>

\* UPDATE products SET price 1500 WHERE id = 5;
Test10 ==
    << <<"U", "P", "D", "A", "T", "E">>,
       <<"p", "r", "o", "d", "u", "c", "t", "s">>,
       <<"S", "E", "T">>,
       <<"p", "r", "i", "c", "e">>,
       <<"1", "5", "0", "0">>,
       <<"W", "H", "E", "R", "E">>,
       <<"i", "d">>,
       <<"=">>,
       <<"5", ";">> >>

\* SELECT * FROM table WHERE column = 5$;
Test11 ==
    << <<"S", "E", "L", "E", "C", "T">>,
       <<"*">>,
       <<"F", "R", "O", "M">>,
       <<"t", "a", "b", "l", "e">>,
       <<"W", "H", "E", "R", "E">>,
       <<"c", "o", "l", "u", "m", "n">>,
       <<"=">>,
       <<"5", "$", ";">> >>

\* Further statements: lower case, aliases, clauses in any order, and
\* GROUP / ORDER separated from BY by a tab.
\* select max(u.c) m, c as x from t as a, t2 where a.b = 'x' or b >= 1.5 and c != d limit 1;
Lower1 ==
    << <<"s", "e", "l", "e", "c", "t">>,
       <<"m", "a", "x", "(", "u", ".", "c", ")">>,
       <<"m", ",">>,
       <<"c">>,
       <<"a", "s">>,
       <<"x">>,
       <<"f", "r", "o", "m">>,
       <<"t">>,
       <<"a", "s">>,
       <<"a", ",">>,
       <<"t", "2">>,
       <<"w", "h", "e", "r", "e">>,
       <<"a", ".", "b">>,
       <<"=">>,
       <<"'", "x", "'">>,
       <<"o", "r">>,
       <<"b">>,
       <<">", "=">>,
       <<"1", ".", "5">>,
       <<"a", "n", "d">>,
       <<"c">>,
       <<"!", "=">>,
       <<"d">>,
       <<"l", "i", "m", "i", "t">>,
       <<"1", ";">> >>

\* delete from t as l where a == 'U+00DF'
Lower2 ==
    << <<"d", "e", "l", "e", "t", "e">>,
       <<"f", "r", "o", "m">>,
       <<"t">>,
       <<"a", "s">>,
       <<"l">>,
       <<"w", "h", "e", "r", "e">>,
       <<"a">>,
       <<"=", "=">>,
       <<"'", SmallSharpS, "'">> >>

\* SELECT c FROM t a GROUP<TAB>BY c , d ;
Spaced1 ==
    << <<"S", "E", "L", "E", "C", "T">>,
       <<"c">>,
       <<"F", "R", "O", "M">>,
       <<"t">>,
       <<"a">>,
       <<"G", "R", "O", "U", "P", "\t", "B", "Y">>,
       <<"c">>,
       <<",">>,
       <<"d">>,
       <<";">> >>

\* SELECT c FROM t a ORDER<TAB>BY c
Spaced2 ==
    << <<"S", "E", "L", "E", "C", "T">>,
       <<"c">>,
       <<"F", "R", "O", "M">>,
       <<"t">>,
       <<"a">>,
       <<"O", "R", "D", "E", "R", "\t", "B", "Y">>,
       <<"c">> >>

\* SELECT c FROM t LIMIT 1 WHERE a = 1 ;
Loose1 ==
    << <<"S", "E", "L", "E", "C", "T">>,
       <<"c">>,
       <<"F", "R", "O", "M">>,
       <<"t">>,
       <<"L", "I", "M", "I", "T">>,
       <<"1">>,
       <<"W", "H", "E", "R", "E">>,
       <<"a">>,
       <<"=">>,
       <<"1">>,
       <<";">> >>

\* UPDATE t u SET a = b.c , d = 'x'
Loose2 ==
    << <<"U", "P", "D", "A", "T", "E">>,
       <<"t">>,
       <<"u">>,
       <<"S", "E", "T">>,
       <<"a">>,
       <<"=">>,
       <<"b", ".", "c">>,
       <<",">>,
       <<"d">>,
       <<"=">>,
       <<"'", "x", "'">> >>

Statements ==
    {Test1, Test2, Test3, Test4, Test5, Test6,
     Test7, Test8, Test9, Test10, Test11, Lower1,
     Lower2, Spaced1, Spaced2, Loose1, Loose2}

\* Bounds of the inputs.
MaxRawLen == 3
MaxExtra == 1

\* Characters of the exhaustive inputs: a letter in both cases, a digit,
\* quote, "!" and "=", dot, whitespace, a character no pattern starts with,
\* and the sharp s in both cases.
RawChars ==
    {"a", "A", "1", "'", "!", "=", ".", " ", "$", SmallSharpS, CapitalSharpS}

\* Every string over RawChars of at most MaxRawLen characters.
RawInputs == UNION {[1..n -> RawChars] : n \in 0..MaxRawLen}

\* Words put after a statement or a part of one.
ExtraWords == {<<";">>, <<"x">>, <<"$">>, <<",">>}

RECURSIVE Join(_)
\* " ".join(words)
Join(words) ==
    IF words = <<>> THEN <<>>
    ELSE IF Len(words) = 1 THEN words[1]
    ELSE words[1] \o <<" ">> \o Join(Tail(words))

\* Every statement cut after any number of its words, followed by at most
\* MaxExtra of the extra words.
StatementInputs ==
    UNION {{Join(SubSeq(st, 1, k) \o extra) :
               k \in 0..Len(st),
               extra \in UNION {[1..n -> ExtraWords] : n \in 0..MaxExtra}} :
           st \in Statements}

Identifiers == {<<"t">>, <<"o", "n", "_", "1">>}

\* "SELECT * FROM t;" and "SELECT F(*) FROM t;"
WildcardInputs ==
    {strSELECT \o <<" ">> \o item \o <<" ">> \o strFROM \o <<" ">> \o t \o <<";">> :
        item \in {<<"*">>} \cup {F \o <<"(", "*", ")">> : F \in Range(FUNCTIONS)},
        t \in Identifiers}

\* "SELECT c FROM t [a] GROUP BY c" and the same with ORDER BY.
ClauseInputs ==
    {Join(<<strSELECT, c, strFROM, t>> \o alias \o <<clause, strBY, c>>) :
        c \in Identifiers, t \in Identifiers,
        alias \in {<<>>} \cup {<<a>> : a \in Identifiers},
        clause \in {strGROUP, strORDER}}

Inputs == RawInputs \cup StatementInputs \cup WildcardInputs \cup ClauseInputs

-----------------------------------------------------------------------------
(* validate_query *)

\* The except clauses with the two failure categories exchanged.
CategorySwapped(exception) ==
    CASE exception = "ValueError" -> "Syntax"
      [] exception = "SyntaxError" -> "Lexical"
      [] OTHER -> "Internal"

\* The except clauses of validate_query: the category of an exception.
Category(exception) ==
    CASE exception = "ValueError" -> "Lexical"
      [] exception = "SyntaxError" -> "Syntax"
      [] OTHER -> "Internal"

\* validate_query is called with one of `inputs`.
Called(inputs) ==
    /\ input \in inputs
    /\ query = input
    /\ position = 0
    /\ tokens = <<>>
    /\ current_token_index = 0
    /\ current_token = None
    /\ stack = <<>>
    /\ phase = "called"
    /\ outcome = "None"
    /\ error_position = -1
    /\ iterations = 0
    /\ advances = 0

Init == Called(Inputs)

\* validate_query calls tokenize: tokens = [], position = 0, query.strip()
Tokenize ==
    /\ phase = "called"
    /\ query' = Strip(query)
    /\ position' = 0
    /\ tokens' = <<>>
    /\ phase' = "tokenize"
    /\ UNCHANGED <<input, current_token_index, current_token, stack, outcome,
                   error_position, iterations, advances>>

\* An iteration of tokenize's while loop in which a pattern matches.
TokenizeMatch ==
    /\ phase = "tokenize"
    /\ position < Len(query)
    /\ FirstPattern(query, position) # 0
    /\ LET m == FirstMatch(query, position)
       IN  /\ tokens' = tokens \o m.append
           /\ position' = position + m.length
    /\ iterations' = iterations + 1
    /\ UNCHANGED <<input, query, current_token_index, current_token, stack,
                   phase, outcome, error_position, advances>>

\* The ValueError naming the 1-based column instead of the offset.
TokenizeErrorOneBased ==
    /\ phase = "tokenize"
    /\ position < Len(query)
    /\ FirstPattern(query, position) = 0
    /\ error_position' = position + 1
    /\ outcome' = Category("ValueError")
    /\ phase' = "returned"
    /\ iterations' = iterations + 1
    /\ UNCHANGED <<input, query, position, tokens, current_token_index,
                   current_token, stack, advances>>

\* An iteration in which no pattern matches: ValueError, caught by
\* validate_query.
TokenizeError ==
    /\ phase = "tokenize"
    /\ position < Len(query)
    /\ FirstPattern(query, position) = 0
    /\ error_position' = position
    /\ outcome' = Category("ValueError")
    /\ phase' = "returned"
    /\ iterations' = iterations + 1
    /\ UNCHANGED <<input, query, position, tokens, current_token_index,
                   current_token, stack, advances>>

\* tokenize returns its tokens; Parser.__init__; parse_query is called.
ParserInit ==
    /\ phase = "tokenize"
    /\ ~(position < Len(query))
    /\ current_token_index' = 0
    /\ current_token' = IF tokens # <<>> THEN tokens[1] ELSE None
    /\ stack' = <<"L50">>
    /\ phase' = "parse"
    /\ UNCHANGED <<input, query, position, tokens, outcome, error_position,
                   iterations, advances>>

\* _advance without its else branch: the last token stays current.
advanceKeepsToken ==
    /\ current_token_index' = current_token_index + 1
    /\ current_token' = IF current_token_index + 1 < Len(tokens)
                        THEN tokens[current_token_index + 2]
                        ELSE current_token
    /\ advances' = advances + 1

\* Parser._advance
advance ==
    /\ current_token_index' = current_token_index + 1
    /\ current_token' = IF current_token_index + 1 < Len(tokens)
                        THEN tokens[current_token_index + 2]
                        ELSE None
    /\ advances' = advances + 1

\* One step of the grammar rule at the top of the stack.
ParserStep(step) ==
    /\ IF step.raise # "None"
       THEN /\ outcome' = Category(step.raise)
            /\ phase' = "returned"
            /\ UNCHANGED <<stack, current_token_index, current_token, advances>>
       ELSE /\ IF step.advance
               THEN advance
               ELSE UNCHANGED <<current_token_index, current_token, advances>>
            /\ stack' = step.push \o Tail(stack)
            /\ UNCHANGED <<outcome, phase>>
    /\ UNCHANGED <<input, query, position, tokens, error_position, iterations>>

\* The parser is running and its next line is one of `lines`.
At(lines) == phase = "parse" /\ stack # <<>> /\ Head(stack) \in lines

parse_query ==
    /\ At({"L50", "L67", "L71"})
    /\ ParserStep(QueryStep(Head(stack)))

parse_select_statement ==
    /\ At({"L80", "L82", "L86", "L95", "L100"})
    /\ ParserStep(SelectStatementStep(Head(stack)))

parse_insert_statement ==
    /\ At({"L115", "L116", "L117", "L119", "L121", "L123", "L124", "L126"})
    /\ ParserStep(InsertStatementStep(Head(stack)))

parse_update_statement ==
    /\ At({"L133", "L135", "L139"})
    /\ ParserStep(UpdateStatementStep(Head(stack)))

parse_delete_statement ==
    /\ At({"L148", "L149", "L153"})
    /\ ParserStep(DeleteStatementStep(Head(stack)))

parse_select_list ==
    /\ At({"L164", "L170"})
    /\ ParserStep(SelectListStep(Head(stack)))

parse_select_item ==
    /\ At({"L183", "L185", "L188", "L195", "L204", "L206"})
    /\ ParserStep(SelectItemStep(Head(stack)))

parse_qualified_identifier ==
    /\ At({"L215", "L216", "L218"})
    /\ ParserStep(QualifiedIdentifierStep(Head(stack)))

parse_table_list ==
    /\ At({"L226"})
    /\ ParserStep(TableListStep(Head(stack)))

parse_table_alias_item ==
    /\ At({"L235", "L238", "L240"})
    /\ ParserStep(TableAliasItemStep(Head(stack)))

parse_column_list ==
    /\ At({"L250", "L252", "L254"})
    /\ ParserStep(ColumnListStep(Head(stack)))

parse_assignment_list ==
    /\ At({"L261", "L262", "L265", "L267", "L268"})
    /\ ParserStep(AssignmentListStep(Head(stack)))

parse_value_list ==
    /\ At({"L278"})
    /\ ParserStep(ValueListStep(Head(stack)))

parse_condition ==
    /\ At({"L289"})
    /\ ParserStep(ConditionStep(Head(stack)))

parse_comparison ==
    /\ At({"L298"})
    /\ ParserStep(ComparisonStep(Head(stack)))

parse_value ==
    /\ At({"L305"})
    /\ ParserStep(ValueStep(Head(stack)))

\* parse_query returned: validate_query returns the success message.
ValidateReturn ==
    /\ phase = "parse"
    /\ stack = <<>>
    /\ outcome' = "Success"
    /\ phase' = "returned"
    /\ UNCHANGED <<input, query, position, tokens, current_token_index,
                   current_token, stack, error_position, iterations, advances>>

Next ==
    \/ Tokenize
    \/ TokenizeMatch
    \/ TokenizeError
    \/ ParserInit
    \/ parse_query
    \/ parse_select_statement
    \/ parse_insert_statement
    \/ parse_update_statement
    \/ parse_delete_statement
    \/ parse_select_list
    \/ parse_select_item
    \/ parse_qualified_identifier
    \/ parse_table_list
    \/ parse_table_alias_item
    \/ parse_column_list
    \/ parse_assignment_list
    \/ parse_value_list
    \/ parse_condition
    \/ parse_comparison
    \/ parse_value
    \/ ValidateReturn

Spec == Init /\ [][Next]_vars

\* The statements, whole and with a character no pattern matches after
\* them, and the inputs of at most one character.
WholeInputs ==
    {Join(st) : st \in Statements} \cup {Join(st \o <<<<"$">>>>) : st \in Statements}
        \cup {s \in RawInputs : Len(s) <= 1}

\* validate_query is one sequential call: the interpreter runs its next
\* statement as long as there is one.
FairSpec == Called(WholeInputs) /\ [][Next]_vars /\ WF_vars(Next)

-----------------------------------------------------------------------------
(* Properties *)

Returned == phase = "returned"

\* C1: a bare "*" is accepted as the wildcard: validate_query returns
\* Success on "SELECT * FROM t;" and on "SELECT F(*) FROM t;" for every
\* aggregate function F and identifier t.
C1_WildcardAccepted ==
    (Returned /\ input \in WildcardInputs) => outcome = "Success"

\* C2: a SELECT with a GROUP BY or ORDER BY clause, with or without a table
\* alias, is accepted: validate_query returns Success on
\* "SELECT c FROM t [a] GROUP BY c" and "SELECT c FROM t [a] ORDER BY c".
C2_ClauseAccepted ==
    (Returned /\ input \in ClauseInputs) => outcome = "Success"

\* The token sequence starts with one of the four statement keywords.
StartsWithStatementKeyword ==
    /\ tokens # <<>>
    /\ tokens[1].value \in {strSELECT, strINSERT, strUPDATE, strDELETE}

\* C3: Success only when a statement was parsed: whenever tokenize returned
\* a token sequence, of any length, whose first token is not SELECT, INSERT,
\* UPDATE or DELETE, validate_query returns a Failure of category Syntax.
C3_NoStatementIsSyntaxFailure ==
    (Returned /\ outcome # "Lexical" /\ ~StartsWithStatementKeyword)
        => outcome = "Syntax"

\* C4: the outcome is fixed by the first stage that fails, and the whole
\* input is tokenized before any parsing: the parser runs only once tokenize
\* has consumed the whole query; the outcome is Lexical exactly when
\* tokenize raises, and then no Parser step was taken; it is Syntax when
\* tokenize returned and parse_query raised, Success when both returned;
\* and it is one of these three.
C4_OutcomeByFirstFailingStage ==
    /\ phase = "parse" => position = Len(query)
    /\ Returned =>
       LET result == tokenize(input)
       IN /\ outcome \in {"Lexical", "Syntax", "Success"}
          /\ (outcome = "Lexical") = result.raised
          /\ outcome = "Lexical" =>
                /\ stack = <<>>
                /\ advances = 0
                /\ current_token_index = 0
                /\ current_token = None
          /\ outcome # "Lexical" => tokens = result.tokens
          /\ outcome = "Syntax" => stack # <<>>
          /\ outcome = "Success" => stack = <<>>

\* A lexical failure although the tokens before the unrecognised character
\* already break the grammar (SELECT followed by the operator "*").
C4_Witness ==
    /\ Returned
    /\ outcome = "Lexical"
    /\ Len(tokens) >= 2
    /\ tokens[1].value = strSELECT
    /\ tokens[2] = Token(<<"*">>, "OPERATOR")

\* parse_query has returned normally.
ParseReturned == (phase = "parse" /\ stack = <<>>) \/ outcome = "Success"

\* C5: trailing tokens are fatal: when parse_query returns normally the
\* cursor is at the end of the tokens, a SEMICOLON token was consumed at most
\* once and as the last token, and a token left after the statement and its
\* optional semicolon (line 71 reached with a current token) is a Syntax
\* failure.
C5_TrailingTokensFatal ==
    /\ ParseReturned =>
          /\ current_token_index = Len(tokens)
          /\ current_token = None
          /\ \A i \in 1..Len(tokens) :
                tokens[i].type = "SEMICOLON" => i = Len(tokens)
    /\ (Returned /\ stack = <<"L71">>) =>
          /\ outcome = "Syntax"
          /\ current_token_index < Len(tokens)

\* A statement and its semicolon were consumed and a second ";" follows.
C5_Witness ==
    /\ Returned
    /\ outcome = "Syntax"
    /\ stack = <<"L71">>
    /\ current_token_index >= 2
    /\ tokens[current_token_index].type = "SEMICOLON"
    /\ current_token.type = "SEMICOLON"

\* The characters the ten pattern classes are written with: letters, digits,
\* underscore, the operator characters, quote, dot, parentheses, comma,
\* semicolon and whitespace.
RecognisedChars ==
    AsciiLower \cup AsciiUpper \cup DigitChars \cup SpaceChars
        \cup {"_", ">", "<", "=", "!", "+", "-", "*", "/"}
        \cup {"'", ".", "(", ")", ",", ";"}

\* tokenize raised ValueError.
LexicalFailure == Returned /\ outcome = "Lexical"

\* C6 as claimed: on an input built only from recognised characters
\* tokenize does not raise a lexical error.
C6_TotalOnRecognisedChars ==
    (Returned /\ Range(input) \subseteq RecognisedChars) => outcome # "Lexical"

\* C6 as amended: on an input built only from recognised characters
\* tokenize raises only at a quote that no later quote closes, at a "!" that
\* no "=" follows, or at a digit whose run of digits is directly followed by
\* a letter or an underscore.
C6_FailsOnlyOnUnmatchable ==
    (LexicalFailure /\ Range(input) \subseteq RecognisedChars) =>
        LET at == error_position + 1
            n == Len(query)
        IN  /\ at \in 1..n
            /\ \/ /\ query[at] = "'"
                   /\ \A j \in (at + 1)..n : query[j] # "'"
               \/ /\ query[at] = "!"
                   /\ ~(at < n /\ query[at + 1] = "=")
               \/ /\ query[at] \in DigitChars
                   /\ \E e \in (at + 1)..n :
                         /\ \A i \in at..(e - 1) : query[i] \in DigitChars
                         /\ query[e] \in AsciiLower \cup AsciiUpper \cup {"_"}

\* A lexical failure on an input of recognised characters, at a digit.
C6_Witness ==
    /\ LexicalFailure
    /\ Range(input) \subseteq RecognisedChars
    /\ query[error_position + 1] \in DigitChars

\* C7 as claimed: a character outside the pattern classes anywhere in the input makes
\* tokenize fail with a lexical error whose position is the offset of such
\* a character in the input that was passed to tokenize.
C7_UnknownCharFailsAtItsOffset ==
    (Returned /\ ~(Range(input) \subseteq RecognisedChars)) =>
        /\ outcome = "Lexical"
        /\ error_position + 1 \in DOMAIN input
        /\ input[error_position + 1] \notin RecognisedChars

\* The number of whitespace characters str.strip() removes in front.
LeadingSpaces(s) == Run(s, 1, SpaceChars)

\* tokenize's loop is at a character outside the pattern classes.
AtUnknownChar ==
    /\ phase = "tokenize"
    /\ position < Len(query)
    /\ query[position + 1] \notin RecognisedChars

\* C7 as amended: a character outside the pattern classes that tokenize
\* reaches at the start of a token (so not one inside a quoted literal or
\* behind an earlier failure) makes it fail with a lexical error, and the
\* position reported is the offset of that character in the stripped query:
\* its offset in the input less the leading whitespace strip() removed.
C7_UnknownCharFailsWhereReached ==
    [][AtUnknownChar =>
          /\ outcome' = "Lexical"
          /\ error_position' = position
          /\ LET at == error_position' + LeadingSpaces(input) + 1
             IN  /\ at \in DOMAIN input
                 /\ input[at] = query[position + 1]
                 /\ input[at] \notin RecognisedChars]_vars

\* A lexical failure at an unknown character of an input that starts with
\* whitespace, after at least one token.
C7_Witness ==
    /\ LexicalFailure
    /\ query[error_position + 1] \notin RecognisedChars
    /\ LeadingSpaces(input) > 0
    /\ tokens # <<>>

\* The other case of a letter, the character itself if it is no letter.
OtherCase(c) ==
    IF c \in AsciiLower THEN AsciiToUpper[c]
    ELSE IF c \in AsciiUpper THEN AsciiToLower[c]
    ELSE IF c = SmallSharpS THEN CapitalSharpS
    ELSE IF c = CapitalSharpS THEN SmallSharpS
    ELSE c

\* The case variants of one character.
CaseVariantsOfChar(c) == {c, OtherCase(c)}

RECURSIVE AllCaseVariants(_)
\* Every string that differs from s only in the case of letters.
AllCaseVariants(s) ==
    IF s = <<>> THEN {<<>>}
    ELSE {<<c>> \o rest :
            c \in CaseVariantsOfChar(Head(s)), rest \in AllCaseVariants(Tail(s))}

\* s with every letter in lower case, in upper case, and in the other case.
LowerCased(s) == [i \in DOMAIN s |-> LowerChar(s[i])]
UpperCased(s) == [i \in DOMAIN s |-> OtherCase(LowerChar(s[i]))]
SwapCased(s) == [i \in DOMAIN s |-> OtherCase(s[i])]

\* The number of characters of s that have two cases.
Cased(s) == Cardinality({i \in DOMAIN s : OtherCase(s[i]) # s[i]})

\* Strings with at most this many cased characters are compared with all
\* their case variants, longer ones with three of them.
MaxCased == 3

CaseVariants(s) ==
    IF Cased(s) <= MaxCased THEN AllCaseVariants(s)
    ELSE {LowerCased(s), UpperCased(s), SwapCased(s)}

\* What a run of tokenize shows: the failure and its position, or the tokens.
Shown(result) ==
    IF result.raised
    THEN [raised |-> TRUE, position |-> result.position, tokens |-> <<>>]
    ELSE [raised |-> FALSE, position |-> -1, tokens |-> result.tokens]

\* What this run of tokenize showed.
ShownHere ==
    Shown([raised |-> outcome = "Lexical",
           position |-> error_position,
           tokens |-> tokens])

\* C8 as claimed: tokenize fails at the same position, or returns the
\* identical token sequence, on any two inputs that differ only in the case
\* of letters.
C8_CaseInsensitive ==
    Returned =>
        \A v \in CaseVariants(input) \ {input} : Shown(tokenize(v)) = ShownHere

\* C8 as amended: the same for any two inputs of ASCII characters.
C8_CaseInsensitiveAscii ==
    (Returned /\ Range(input) \cap {SmallSharpS, CapitalSharpS} = {}) =>
        \A v \in CaseVariants(input) \ {input} : Shown(tokenize(v)) = ShownHere

\* A statement in lower case, tokenized to the end.
C8_Witness ==
    /\ Returned
    /\ outcome # "Lexical"
    /\ Len(tokens) >= 4
    /\ input = LowerCased(input)
    /\ Cased(input) >= 4
    /\ input # UpperCased(input)

\* The lines of parser.py that hold the test of a while loop.
LoopHeads == {"L86", "L170", "L226", "L252", "L265", "L278", "L289"}

\* An iteration of tokenize's loop raises or moves the offset forward.
TokenizeIterationProgress ==
    (phase = "tokenize" /\ iterations' # iterations) =>
        \/ outcome' = "Lexical" /\ phase' = "returned"
        \/ position' > position /\ position' <= Len(query)

\* The test of a parser loop ends the loop or consumes a token; the body
\* that follows raises or comes back to the test.
ParserLoopProgress ==
    At(LoopHeads) =>
        \/ stack' = Tail(stack) /\ current_token_index' = current_token_index
        \/ stack' # Tail(stack) /\ current_token_index' = current_token_index + 1

\* C9: every validation call terminates: an iteration of tokenize's loop
\* raises or strictly increases the offset, the test of every parser loop
\* leaves the loop or advances the cursor, tokenize makes at most len(query)
\* iterations and the parser at most len(tokens) advances, and the call
\* returns.
C9_Terminates ==
    /\ [](iterations <= Len(query) /\ advances <= Len(tokens))
    /\ [][TokenizeIterationProgress]_vars
    /\ [][ParserLoopProgress]_vars
    /\ <>Returned

\* A call that returned after its parser consumed every token, commas of a
\* list among them, and its tokenize loop skipped whitespace.
C9_Witness ==
    /\ Returned
    /\ Len(tokens) >= 6
    /\ advances = Len(tokens)
    /\ iterations > Len(tokens)
    /\ \E i \in DOMAIN tokens : tokens[i].type = "COMMA"

\* The Parser object exists: parse_query is running or has ended.
Parsing == phase = "parse" \/ (Returned /\ outcome \in {"Success", "Syntax"})

CursorInvariant ==
    Parsing =>
        /\ current_token_index \in 0..Len(tokens)
        /\ current_token = IF current_token_index < Len(tokens)
                           THEN tokens[current_token_index + 1]
                           ELSE None

CursorStep ==
    Parsing =>
        /\ current_token_index' \in {current_token_index, current_token_index + 1}
        /\ current_token_index' # current_token_index =>
              current_token_index < Len(tokens)
        /\ tokens' = tokens

\* C10: during one parse 0 <= current_token_index <= len(tokens); a step
\* leaves the index alone or adds exactly one to it, and adds one only when
\* the index is below len(tokens); current_token is tokens[current_token_index]
\* when the index is below len(tokens) and None otherwise; the tokens never
\* change.
C10_CursorInvariant == []CursorInvariant /\ [][CursorStep]_vars

\* The parser has consumed the last of several tokens and is still running.
C10_Witness ==
    /\ phase = "parse"
    /\ Len(tokens) >= 3
    /\ current_token_index = Len(tokens)
    /\ current_token = None

\* A step of tokenize ends the call only with a lexical failure.
TokenizeRaisesValueError ==
    (phase = "tokenize" /\ phase' = "returned") => outcome' = "Lexical"

\* A step of the parser ends the call only by a SyntaxError inside a rule or
\* by the return of parse_query.
ParserRaisesSyntaxError ==
    (phase = "parse" /\ phase' = "returned") =>
        \/ outcome' = "Syntax" /\ stack # <<>>
        \/ outcome' = "Success" /\ stack = <<>>

\* C11: for a string input validate_query never gives the Internal outcome:
\* tokenize raises nothing but ValueError and parse_query nothing but
\* SyntaxError; no rule subscripts current_token when it is None, which
\* would be a TypeError.
C11_NoInternalError ==
    /\ [](outcome \in {"None", "Lexical", "Syntax", "Success"})
    /\ [][TokenizeRaisesValueError]_vars
    /\ [][ParserRaisesSyntaxError]_vars

\* parse_value found the token stream exhausted and raised its SyntaxError.
C11_Witness ==
    /\ Returned
    /\ outcome = "Syntax"
    /\ tokens # <<>>
    /\ current_token = None
    /\ current_token_index = Len(tokens)
    /\ Head(stack) = "L305"

====
